---------------------------- MODULE Spec2Model ----------------------------
(***************************************************************************)
(* Model of s_p_box.py (src/main.py): the S-box and P-box byte transforms, *)
(* the derivation of their inverse tables, and the self tests.             *)
(*                                                                         *)
(* Python values are modelled as follows.                                  *)
(*   - int: a TLA+ integer (Python ints are unbounded, so no width).       *)
(*   - list: a sequence; Python index k is sequence index k + 1, and a     *)
(*     negative Python index k counts from the end (k + len).              *)
(*   - a raised exception: the field exc of the result, "none" when the    *)
(*     call returned.                                                      *)
(* The four module-level lists are the variables S_BOX, INVERSE_S_BOX,     *)
(* P_BOX and INVERSE_P_BOX; call holds the call in progress or just        *)
(* returned, with its arguments before and after and its result.           *)
(***************************************************************************)
EXTENDS Integers, Sequences, FiniteSets, TLC

VARIABLES S_BOX, INVERSE_S_BOX, P_BOX, INVERSE_P_BOX, call

vars == <<S_BOX, INVERSE_S_BOX, P_BOX, INVERSE_P_BOX, call>>

(***************************************************************************)
(* Bounds of the model.                                                    *)
(***************************************************************************)
\* How far below 0 and above 255 the integers passed as input_byte reach.
ExtraRange == 8
\* How many element swaps a caller applies to a copy of a built-in table.
MaxSwaps == 1

(***************************************************************************)
(* Program constants.                                                      *)
(***************************************************************************)
SBoxSize == 16
ByteBits == 8
ByteValues == 256

Byte == 0..(ByteValues - 1)

(***************************************************************************)
(* Python's integer operators.  Integers are two's complement of unbounded *)
(* width: x % 2 is the lowest bit and x \div 2 (floor) drops it, for       *)
(* negative x too; 0 and -1 are the two fixed points of the shift.         *)
(***************************************************************************)
RECURSIVE Pow2(_)
Pow2(n) == IF n = 0 THEN 1 ELSE 2 * Pow2(n - 1)

\* x << n, for n >= 0
ShiftLeft(x, n) == x * Pow2(n)

\* x >> n, for n >= 0
ShiftRight(x, n) == x \div Pow2(n)

RECURSIVE BitAnd(_, _)
BitAnd(x, y) ==
    IF x = 0 \/ y = 0 THEN 0
    ELSE IF x = -1 THEN y
    ELSE IF y = -1 THEN x
    ELSE (x % 2) * (y % 2) + 2 * BitAnd(x \div 2, y \div 2)

RECURSIVE BitOr(_, _)
BitOr(x, y) ==
    IF x = 0 THEN y
    ELSE IF y = 0 THEN x
    ELSE IF x = -1 \/ y = -1 THEN -1
    ELSE (IF x % 2 = 1 \/ y % 2 = 1 THEN 1 ELSE 0)
         + 2 * BitOr(x \div 2, y \div 2)

(***************************************************************************)
(* Python's list indexing.                                                 *)
(***************************************************************************)
\* lst[k] is defined (no IndexError)
IndexOk(lst, k) == -Len(lst) <= k /\ k < Len(lst)

\* the sequence index of Python index k
SeqIndex(lst, k) == IF k < 0 THEN k + Len(lst) + 1 ELSE k + 1

\* lst[k]
GetItem(lst, k) == lst[SeqIndex(lst, k)]

\* lst after lst[k] = v
SetItem(lst, k, v) == [lst EXCEPT ![SeqIndex(lst, k)] = v]

\* [0] * n
Zeros(n) == [k \in 1..n |-> 0]

(***************************************************************************)
(* The built-in tables.                                                    *)
(***************************************************************************)
SBoxLiteral == <<14, 4, 13, 1, 2, 15, 11, 8, 3, 10, 6, 12, 5, 9, 0, 7>>

PBoxLiteral == <<1, 5, 2, 0, 3, 7, 4, 6>>

(***************************************************************************)
(* S-box.                                                                  *)
(***************************************************************************)
\* A mistaken s_box_encrypt: the substituted high nibble is shifted by 3.
s_box_encrypt_shift3(input_byte) ==
    LET high_nibble == ShiftRight(BitAnd(input_byte, 240), 4)
        low_nibble == BitAnd(input_byte, 15)
        high_nibble_sub == GetItem(S_BOX, high_nibble)
        low_nibble_sub == GetItem(S_BOX, low_nibble)
        output_byte == BitOr(ShiftLeft(high_nibble_sub, 3), low_nibble_sub)
    IN  output_byte

s_box_encrypt(input_byte) ==
    LET high_nibble == ShiftRight(BitAnd(input_byte, 240), 4)
        low_nibble == BitAnd(input_byte, 15)
        high_nibble_sub == GetItem(S_BOX, high_nibble)
        low_nibble_sub == GetItem(S_BOX, low_nibble)
        output_byte == BitOr(ShiftLeft(high_nibble_sub, 4), low_nibble_sub)
    IN  output_byte

\* A mistaken s_box_decrypt: it looks the nibbles up in S_BOX.
s_box_decrypt_forward_table(input_byte) ==
    LET high_nibble == ShiftRight(BitAnd(input_byte, 240), 4)
        low_nibble == BitAnd(input_byte, 15)
        high_nibble_sub == GetItem(S_BOX, high_nibble)
        low_nibble_sub == GetItem(S_BOX, low_nibble)
        output_byte == BitOr(ShiftLeft(high_nibble_sub, 4), low_nibble_sub)
    IN  output_byte

s_box_decrypt(input_byte) ==
    LET high_nibble == ShiftRight(BitAnd(input_byte, 240), 4)
        low_nibble == BitAnd(input_byte, 15)
        high_nibble_sub == GetItem(INVERSE_S_BOX, high_nibble)
        low_nibble_sub == GetItem(INVERSE_S_BOX, low_nibble)
        output_byte == BitOr(ShiftLeft(high_nibble_sub, 4), low_nibble_sub)
    IN  output_byte

\* The result of a derivation: the exception raised or "none", the list
\* returned, and the argument list as the call leaves it.
Derived(exc, ret, arg) == [exc |-> exc, ret |-> ret, arg |-> arg]

\* iterations i.. of "for i in range(16): inverse_s_box[s_box[i]] = i"
RECURSIVE inverse_s_box_loop(_, _, _)
inverse_s_box_loop(s_box, inverse_s_box, i) ==
    IF i = SBoxSize THEN Derived("none", inverse_s_box, s_box)
    ELSE IF ~IndexOk(s_box, i) THEN Derived("IndexError", <<>>, s_box)
    ELSE IF ~IndexOk(inverse_s_box, GetItem(s_box, i))
         THEN Derived("IndexError", <<>>, s_box)
    ELSE inverse_s_box_loop(s_box,
                            SetItem(inverse_s_box, GetItem(s_box, i), i),
                            i + 1)

\* A mistaken derivation: "inverse_s_box = s_box" in place of a new list, so
\* that every write lands in the argument and the argument is returned.
RECURSIVE inverse_s_box_in_place_loop(_, _)
inverse_s_box_in_place_loop(s_box, i) ==
    IF i = SBoxSize THEN Derived("none", s_box, s_box)
    ELSE IF ~IndexOk(s_box, i) THEN Derived("IndexError", <<>>, s_box)
    ELSE IF ~IndexOk(s_box, GetItem(s_box, i))
         THEN Derived("IndexError", <<>>, s_box)
    ELSE inverse_s_box_in_place_loop(SetItem(s_box, GetItem(s_box, i), i),
                                     i + 1)

generate_inverse_s_box_in_place(s_box) ==
    inverse_s_box_in_place_loop(s_box, 0)

\* A mistaken derivation: "range(15)", the last entry is never inverted.
RECURSIVE inverse_s_box_short_loop(_, _, _)
inverse_s_box_short_loop(s_box, inverse_s_box, i) ==
    IF i = SBoxSize - 1 THEN Derived("none", inverse_s_box, s_box)
    ELSE IF ~IndexOk(s_box, i) THEN Derived("IndexError", <<>>, s_box)
    ELSE IF ~IndexOk(inverse_s_box, GetItem(s_box, i))
         THEN Derived("IndexError", <<>>, s_box)
    ELSE inverse_s_box_short_loop(s_box,
                                  SetItem(inverse_s_box, GetItem(s_box, i), i),
                                  i + 1)

generate_inverse_s_box_short(s_box) ==
    inverse_s_box_short_loop(s_box, Zeros(SBoxSize), 0)

generate_inverse_s_box(s_box) ==
    inverse_s_box_loop(s_box, Zeros(SBoxSize), 0)

(***************************************************************************)
(* P-box.                                                                  *)
(***************************************************************************)
\* The result of a bit permutation: the exception raised or "none", and the
\* byte returned.
Permuted(exc, ret) == [exc |-> exc, ret |-> ret]

\* iterations i.. of the loop of permute; a negative shift count raises
\* ValueError
RECURSIVE permute_loop(_, _, _, _)
permute_loop(input_byte, permutation, output_byte, i) ==
    IF i = ByteBits THEN Permuted("none", output_byte)
    ELSE IF ~IndexOk(permutation, i) THEN Permuted("IndexError", 0)
    ELSE IF GetItem(permutation, i) < 0 THEN Permuted("ValueError", 0)
    ELSE LET bit == BitAnd(ShiftRight(input_byte, GetItem(permutation, i)), 1)
         IN  permute_loop(input_byte, permutation,
                          BitOr(output_byte, ShiftLeft(bit, i)), i + 1)

\* A mistaken permute: bit i of the input is written to position
\* permutation[i] (a scatter in place of the gather).
RECURSIVE permute_scatter_loop(_, _, _, _)
permute_scatter_loop(input_byte, permutation, output_byte, i) ==
    IF i = ByteBits THEN Permuted("none", output_byte)
    ELSE IF ~IndexOk(permutation, i) THEN Permuted("IndexError", 0)
    ELSE IF GetItem(permutation, i) < 0 THEN Permuted("ValueError", 0)
    ELSE LET bit == BitAnd(ShiftRight(input_byte, i), 1)
         IN  permute_scatter_loop(input_byte, permutation,
                 BitOr(output_byte, ShiftLeft(bit, GetItem(permutation, i))),
                 i + 1)

permute_scatter(input_byte, permutation) ==
    permute_scatter_loop(input_byte, permutation, 0, 0)

\* A mistaken permute: "range(7)", output bit 7 is never written.
permute_short(input_byte, permutation) ==
    LET r == permute_loop(input_byte, permutation, 0, 0)
    IN  IF r.exc = "none" THEN Permuted("none", BitAnd(r.ret, 127)) ELSE r

permute(input_byte, permutation) ==
    permute_loop(input_byte, permutation, 0, 0)

\* A mistaken p_box_encrypt: it permutes by INVERSE_P_BOX.
p_box_encrypt_inverse_table(input_byte) == permute(input_byte, INVERSE_P_BOX)

p_box_encrypt(input_byte) == permute(input_byte, P_BOX)

\* iterations i.. of "for i, p in enumerate(permutation):
\* inverse_permutation[p] = i"
RECURSIVE inverse_p_box_loop(_, _, _)
inverse_p_box_loop(permutation, inverse_permutation, i) ==
    IF i = Len(permutation)
    THEN Derived("none", inverse_permutation, permutation)
    ELSE IF ~IndexOk(inverse_permutation, GetItem(permutation, i))
         THEN Derived("IndexError", <<>>, permutation)
    ELSE inverse_p_box_loop(permutation,
             SetItem(inverse_permutation, GetItem(permutation, i), i),
             i + 1)

\* A mistaken derivation: "inverse_permutation[i] = p", a copy of the table.
generate_inverse_p_box_copy(permutation) ==
    Derived("none", permutation, permutation)

generate_inverse_p_box(permutation) ==
    inverse_p_box_loop(permutation, Zeros(Len(permutation)), 0)

p_box_decrypt(input_byte) == permute(input_byte, INVERSE_P_BOX)

(***************************************************************************)
(* The arguments callers pass.                                             *)
(***************************************************************************)
\* the integers passed as input_byte: every byte, and integers on both
\* sides of the byte range (Python does not bound an int)
InputInts == (0 - ExtraRange)..(ByteValues - 1 + ExtraRange)

\* lst after "lst[i], lst[j] = lst[j], lst[i]"
Swap(lst, i, j) == [lst EXCEPT ![i] = lst[j], ![j] = lst[i]]

\* the lists made from those of T by at most k swaps of two elements
RECURSIVE Swapped(_, _)
Swapped(T, k) ==
    IF k = 0 THEN T
    ELSE Swapped(T \cup UNION {{Swap(t, i, j) : i, j \in 1..Len(t)} : t \in T},
                 k - 1)

\* the values written into a table of n entries: every index, the first
\* integer past the end, and -1, -n, -n-1 (Python's indices from the end and
\* the first integer before them)
TableValues(n) == (0..n) \cup {-1, 0 - n, 0 - n - 1}

\* the lists made from lst by one "lst[k] = v"
Corrupted(lst) ==
    {SetItem(lst, k, v) : k \in 0..(Len(lst) - 1), v \in TableValues(Len(lst))}

\* the 16-entry lists a caller builds from copies of the module's tables
STables ==
    Swapped({S_BOX, INVERSE_S_BOX}, MaxSwaps)
        \cup Corrupted(S_BOX) \cup Corrupted(INVERSE_S_BOX)

\* the 8-entry lists a caller builds from copies of the module's tables
PTables ==
    Swapped({P_BOX, INVERSE_P_BOX}, MaxSwaps)
        \cup Corrupted(P_BOX) \cup Corrupted(INVERSE_P_BOX)

\* A list argument is one of the module's own lists, passed by reference,
\* or a list of the caller's.
GlobalRefs == {"S_BOX", "INVERSE_S_BOX", "P_BOX", "INVERSE_P_BOX"}

Deref(ref) ==
    CASE ref = "S_BOX" -> S_BOX
      [] ref = "INVERSE_S_BOX" -> INVERSE_S_BOX
      [] ref = "P_BOX" -> P_BOX
      [] ref = "INVERSE_P_BOX" -> INVERSE_P_BOX

TableArgs ==
    {[ref |-> r, val |-> Deref(r)] : r \in GlobalRefs}
        \cup {[ref |-> "caller", val |-> t] : t \in STables \cup PTables}

\* The module's lists after a call that leaves the list passed as ref
\* holding v.
Store(ref, v) ==
    /\ S_BOX' = IF ref = "S_BOX" THEN v ELSE S_BOX
    /\ INVERSE_S_BOX' = IF ref = "INVERSE_S_BOX" THEN v ELSE INVERSE_S_BOX
    /\ P_BOX' = IF ref = "P_BOX" THEN v ELSE P_BOX
    /\ INVERSE_P_BOX' = IF ref = "INVERSE_P_BOX" THEN v ELSE INVERSE_P_BOX

(***************************************************************************)
(* The state machine.  call.fn is "none" between calls; otherwise call is  *)
(* the call that just ended: input its integer argument, ref and table its *)
(* list argument, tableAfter that list when the call ended, mid the        *)
(* intermediate byte of a self test, ret the integer and retTable the list *)
(* returned, exc the exception raised.                                     *)
(***************************************************************************)
NoCall ==
    [fn |-> "none", input |-> 0, ref |-> "none", table |-> <<>>,
     tableAfter |-> <<>>, mid |-> 0, ret |-> 0, retTable |-> <<>>,
     exc |-> "none"]

\* Module load: the literals are assigned and the inverses derived.
Init ==
    /\ S_BOX = SBoxLiteral
    /\ INVERSE_S_BOX = generate_inverse_s_box(SBoxLiteral).ret
    /\ P_BOX = PBoxLiteral
    /\ INVERSE_P_BOX = generate_inverse_p_box(PBoxLiteral).ret
    /\ call = NoCall

Tables == <<S_BOX, INVERSE_S_BOX, P_BOX, INVERSE_P_BOX>>

CallSBoxEncrypt ==
    /\ call.fn = "none"
    /\ \E input_byte \in InputInts :
          call' = [NoCall EXCEPT !.fn = "s_box_encrypt", !.input = input_byte,
                                 !.ret = s_box_encrypt(input_byte)]
    /\ UNCHANGED Tables

CallSBoxDecrypt ==
    /\ call.fn = "none"
    /\ \E input_byte \in InputInts :
          call' = [NoCall EXCEPT !.fn = "s_box_decrypt", !.input = input_byte,
                                 !.ret = s_box_decrypt(input_byte)]
    /\ UNCHANGED Tables

CallPBoxEncrypt ==
    /\ call.fn = "none"
    /\ \E input_byte \in InputInts :
          LET r == p_box_encrypt(input_byte)
          IN  call' = [NoCall EXCEPT !.fn = "p_box_encrypt",
                                     !.input = input_byte,
                                     !.ret = r.ret, !.exc = r.exc]
    /\ UNCHANGED Tables

CallPBoxDecrypt ==
    /\ call.fn = "none"
    /\ \E input_byte \in InputInts :
          LET r == p_box_decrypt(input_byte)
          IN  call' = [NoCall EXCEPT !.fn = "p_box_decrypt",
                                     !.input = input_byte,
                                     !.ret = r.ret, !.exc = r.exc]
    /\ UNCHANGED Tables

CallPermute ==
    /\ call.fn = "none"
    /\ \E input_byte \in InputInts, permutation \in PTables :
          LET r == permute(input_byte, permutation)
          IN  call' = [NoCall EXCEPT !.fn = "permute", !.input = input_byte,
                                     !.ref = "caller", !.table = permutation,
                                     !.tableAfter = permutation,
                                     !.ret = r.ret, !.exc = r.exc]
    /\ UNCHANGED Tables

CallGenerateInverseSBox ==
    /\ call.fn = "none"
    /\ \E a \in TableArgs :
          LET r == generate_inverse_s_box(a.val)
          IN  /\ call' = [NoCall EXCEPT !.fn = "generate_inverse_s_box",
                                        !.ref = a.ref, !.table = a.val,
                                        !.tableAfter = r.arg,
                                        !.retTable = r.ret, !.exc = r.exc]
              /\ Store(a.ref, r.arg)

CallGenerateInversePBox ==
    /\ call.fn = "none"
    /\ \E a \in TableArgs :
          LET r == generate_inverse_p_box(a.val)
          IN  /\ call' = [NoCall EXCEPT !.fn = "generate_inverse_p_box",
                                        !.ref = a.ref, !.table = a.val,
                                        !.tableAfter = r.arg,
                                        !.retTable = r.ret, !.exc = r.exc]
              /\ Store(a.ref, r.arg)

\* one iteration of the loop of test_s_box
TestSBox ==
    /\ call.fn = "none"
    /\ \E input_byte \in Byte :
          LET encrypted == s_box_encrypt(input_byte)
              decrypted == s_box_decrypt(encrypted)
          IN  call' = [NoCall EXCEPT
                          !.fn = "test_s_box", !.input = input_byte,
                          !.mid = encrypted, !.ret = decrypted,
                          !.exc = IF input_byte = decrypted THEN "none"
                                  ELSE "AssertionError"]
    /\ UNCHANGED Tables

\* one iteration of the loop of test_p_box
TestPBox ==
    /\ call.fn = "none"
    /\ \E input_byte \in Byte :
          LET encrypted == p_box_encrypt(input_byte).ret
              decrypted == p_box_decrypt(encrypted).ret
          IN  call' = [NoCall EXCEPT
                          !.fn = "test_p_box", !.input = input_byte,
                          !.mid = encrypted, !.ret = decrypted,
                          !.exc = IF input_byte = decrypted THEN "none"
                                  ELSE "AssertionError"]
    /\ UNCHANGED Tables

\* The caller is done with the result and goes on to its next call.
Return ==
    /\ call.fn # "none"
    /\ call' = NoCall
    /\ UNCHANGED Tables

Next ==
    \/ CallSBoxEncrypt
    \/ CallSBoxDecrypt
    \/ CallPBoxEncrypt
    \/ CallPBoxDecrypt
    \/ CallPermute
    \/ CallGenerateInverseSBox
    \/ CallGenerateInversePBox
    \/ TestSBox
    \/ TestPBox
    \/ Return

Spec == Init /\ [][Next]_vars

(***************************************************************************)
(* Properties.                                                             *)
(***************************************************************************)
\* t has n entries and is a bijection on 0..n-1
IsBijection(t, n) == Len(t) = n /\ {t[k] : k \in 1..n} = 0..(n - 1)

\* t has n entries, one of them outside 0..n-1 or two of them equal
IsInvalidTable(t, n) ==
    /\ Len(t) = n
    /\ \/ \E k \in 1..n : t[k] \notin 0..(n - 1)
       \/ \E j, k \in 1..n : j # k /\ t[j] = t[k]

\* inv[t[i]] = i for every index i of t
IsInverseOf(inv, t) ==
    /\ Len(inv) = Len(t)
    /\ \A k \in 1..Len(t) :
          /\ t[k] \in 0..(Len(t) - 1)
          /\ inv[t[k] + 1] = k - 1

\* bit n of x
Bit(x, n) == (x \div Pow2(n)) % 2

DeriveFns == {"generate_inverse_s_box", "generate_inverse_p_box"}

TransformFns ==
    {"s_box_encrypt", "s_box_decrypt", "p_box_encrypt", "p_box_decrypt",
     "permute"}

\* the number of entries the derivation fn is meant for
EntriesOf(fn) == IF fn = "generate_inverse_s_box" THEN SBoxSize ELSE ByteBits

\* C1: every iteration of test_s_box finds s_box_decrypt(s_box_encrypt(b))
\* equal to b, for each byte b, with INVERSE_S_BOX the table that
\* generate_inverse_s_box derives from S_BOX.
C1_SBoxRoundTrip ==
    call.fn = "test_s_box" =>
        /\ call.ret = call.input
        /\ call.exc = "none"
        /\ INVERSE_S_BOX = generate_inverse_s_box(S_BOX).ret

C1_Witness ==
    /\ call.fn = "test_s_box"
    /\ call.input = 255
    /\ call.mid # 255
    /\ call.ret = 255

\* C2: every iteration of test_p_box finds p_box_decrypt(p_box_encrypt(b))
\* equal to b, for each byte b, with INVERSE_P_BOX the table that
\* generate_inverse_p_box derives from P_BOX.
C2_PBoxRoundTrip ==
    call.fn = "test_p_box" =>
        /\ call.ret = call.input
        /\ call.exc = "none"
        /\ INVERSE_P_BOX = generate_inverse_p_box(P_BOX).ret

C2_Witness ==
    /\ call.fn = "test_p_box"
    /\ call.input = 179
    /\ call.mid # 179
    /\ call.ret = 179

\* C3: the round trip in the other order: the forward transform of what
\* the inverse transform returned for a byte b is b, for both engines.
C3_InverseThenForward ==
    /\ (call.fn = "s_box_decrypt" /\ call.input \in Byte) =>
           s_box_encrypt(call.ret) = call.input
    /\ (call.fn = "p_box_decrypt" /\ call.input \in Byte) =>
           /\ call.exc = "none"
           /\ p_box_encrypt(call.ret) = Permuted("none", call.input)

C3_Witness ==
    /\ call.fn = "p_box_decrypt"
    /\ call.input = 179
    /\ call.ret # 179
    /\ p_box_encrypt(call.ret).ret = 179

\* C4: a derivation called with a table that has a duplicated or an
\* out-of-range entry fails with ConfigError, and a derivation that returns
\* returns the inverse of its argument.
C4_BijectivityCheck ==
    call.fn \in DeriveFns =>
        /\ IsInvalidTable(call.table, EntriesOf(call.fn)) =>
               call.exc = "ConfigError"
        /\ call.exc = "none" => IsInverseOf(call.retTable, call.table)

\* C5: deriving the inverse of the inverse derived from a bijective table
\* (16 entries for generate_inverse_s_box, 8 for generate_inverse_p_box)
\* gives the table back.
C5_DoubleInverse ==
    /\ (call.fn = "generate_inverse_s_box"
            /\ IsBijection(call.table, SBoxSize)) =>
           /\ call.exc = "none"
           /\ generate_inverse_s_box(call.retTable)
                  = Derived("none", call.table, call.retTable)
    /\ (call.fn = "generate_inverse_p_box"
            /\ IsBijection(call.table, ByteBits)) =>
           /\ call.exc = "none"
           /\ generate_inverse_p_box(call.retTable)
                  = Derived("none", call.table, call.retTable)

C5_Witness ==
    /\ call.fn = "generate_inverse_s_box"
    /\ call.ref = "caller"
    /\ IsBijection(call.table, SBoxSize)
    /\ call.table \notin {SBoxLiteral, generate_inverse_s_box(SBoxLiteral).ret}
    /\ call.retTable # call.table
    /\ generate_inverse_s_box(call.retTable).ret = call.table

\* C6: a transform called with an integer outside 0..255 fails with
\* InputRangeError.
C6_InputRangeError ==
    (call.fn \in TransformFns /\ call.input \notin Byte) =>
        call.exc = "InputRangeError"

\* C7: with the built-in S_BOX, s_box_encrypt(179) is 193 and
\* s_box_decrypt(193) is 179, in direct calls and in the self test.
C7_Scenario1 ==
    /\ S_BOX = <<14, 4, 13, 1, 2, 15, 11, 8, 3, 10, 6, 12, 5, 9, 0, 7>>
    /\ (call.fn = "s_box_encrypt" /\ call.input = 179) => call.ret = 193
    /\ (call.fn = "s_box_decrypt" /\ call.input = 193) => call.ret = 179
    /\ (call.fn = "test_s_box" /\ call.input = 179) =>
           (call.mid = 193 /\ call.ret = 179)

C7_Witness ==
    /\ call.fn = "test_s_box"
    /\ call.input = 179
    /\ call.mid = 193
    /\ call.ret = 179

\* C8: with the built-in P_BOX, p_box_encrypt(179) is 107 and
\* p_box_decrypt(107) is 179, in direct calls and in the self test.
C8_Scenario2 ==
    /\ P_BOX = <<1, 5, 2, 0, 3, 7, 4, 6>>
    /\ (call.fn = "p_box_encrypt" /\ call.input = 179) =>
           (call.ret = 107 /\ call.exc = "none")
    /\ (call.fn = "p_box_decrypt" /\ call.input = 107) =>
           (call.ret = 179 /\ call.exc = "none")
    /\ (call.fn = "test_p_box" /\ call.input = 179) =>
           (call.mid = 107 /\ call.ret = 179)

C8_Witness ==
    /\ call.fn = "test_p_box"
    /\ call.input = 179
    /\ call.mid = 107
    /\ call.ret = 179

\* C9: no call changes any of the four module-level tables, and a call
\* leaves the list passed to it as it was.
C9_TablesImmutable ==
    [][/\ S_BOX' = S_BOX
       /\ INVERSE_S_BOX' = INVERSE_S_BOX
       /\ P_BOX' = P_BOX
       /\ INVERSE_P_BOX' = INVERSE_P_BOX
       /\ call'.tableAfter = call'.table]_vars

C9_Witness ==
    /\ call.fn = "generate_inverse_s_box"
    /\ call.ref = "S_BOX"
    /\ call.exc = "none"
    /\ call.table = SBoxLiteral
    /\ call.retTable # SBoxLiteral
    /\ S_BOX = SBoxLiteral

\* C10: for a byte b and a table t of 8 entries in 0..7, bit i of
\* permute(b, t) is bit t[i] of b for every i in 0..7, and no higher bit is
\* set.
C10_PermuteGather ==
    (/\ call.fn = "permute"
     /\ call.input \in Byte
     /\ Len(call.table) = ByteBits
     /\ \A k \in 1..ByteBits : call.table[k] \in 0..(ByteBits - 1)) =>
        /\ call.exc = "none"
        /\ call.ret \in Byte
        /\ \A i \in 0..(ByteBits - 1) :
              Bit(call.ret, i) = Bit(call.input, call.table[i + 1])

C10_Witness ==
    /\ call.fn = "permute"
    /\ call.input = 179
    /\ ~IsBijection(call.table, ByteBits)
    /\ \A k \in 1..ByteBits : call.table[k] \in 0..(ByteBits - 1)
    /\ call.table[ByteBits] = 7
    /\ call.ret \notin {0, 179, 255}
    /\ call.ret >= 128

=============================================================================
